---- MODULE Spec2Model ----
(***************************************************************************)
(* The sliding-tile puzzle of src/src/n_puzzle.rs and the driver of        *)
(* src/src/bin/main.rs.                                                    *)
(*                                                                         *)
(* A Board is a Matrix<Option<NonZeroU8>>: a record [rows, columns, data]  *)
(* whose data is the row-major cell sequence; None is written 0 and        *)
(* Some(v) is written v.  A Pos is <<row, column>>, counted from 0 as in   *)
(* the source.  An NPuzzle is [board, blank_position].                     *)
(*                                                                         *)
(* The five search entry points main calls are not among the sources; they *)
(* are written down as the specification describes them.                   *)
(***************************************************************************)
EXTENDS Integers, Sequences, FiniteSets

VARIABLES args, pc, path, succs, report, moved

vars == <<args, pc, path, succs, report, moved>>

----------------------------------------------------------------------------
(* Bounds of the model *)

\* Largest board side given to NPuzzle::new
MaxSize == 3

\* Largest number of blank moves along one explored path
MaxMoves == 3

----------------------------------------------------------------------------
(* Option<NonZeroU8> and small helpers *)

None == 0

Min(a, b) == IF a < b THEN a ELSE b

\* usize::abs_diff
abs_diff(a, b) == IF a < b THEN b - a ELSE a - b

\* usize::saturating_sub
saturating_sub(a, b) == IF a < b THEN 0 ELSE a - b

\* Iterator::take on a sequence
take(s, k) == SubSeq(s, 1, Min(k, Len(s)))

\* what an iterator still holds after its first k items were taken by_ref
after(s, k) == SubSeq(s, Min(k, Len(s)) + 1, Len(s))

----------------------------------------------------------------------------
(* pathfinding::matrix::Matrix, as far as n_puzzle.rs uses it *)

NoMatrix == [rows |-> 0, columns |-> 0, data |-> <<>>]

\* Matrix::square_from_vec: Ok for a vector of square length, Err otherwise
square_from_vec(values) ==
    IF \E s \in 0..Len(values) : s * s = Len(values)
    THEN [ok |-> TRUE,
          matrix |-> [rows    |-> CHOOSE s \in 0..Len(values) : s * s = Len(values),
                      columns |-> CHOOSE s \in 0..Len(values) : s * s = Len(values),
                      data    |-> values]]
    ELSE [ok |-> FALSE, matrix |-> NoMatrix]

\* Matrix::within_bounds
within_bounds(m, p) == p[1] < m.rows /\ p[2] < m.columns

\* Matrix::idx, the row-major index (from 0) of a position
idx(m, p) == p[1] * m.columns + p[2]

\* Matrix::swap: exchanges two cells; Matrix::idx asserts both are in bounds
swap_panics(m, a, b) == ~within_bounds(m, a) \/ ~within_bounds(m, b)

\* swap gone wrong: the second cell is copied over the first and kept
swap_copies(m, a, b) ==
    [m EXCEPT !.data = [i \in 1..Len(m.data) |->
        IF i = idx(m, a) + 1 THEN m.data[idx(m, b) + 1] ELSE m.data[i]]]

swap(m, a, b) ==
    [m EXCEPT !.data = [i \in 1..Len(m.data) |->
        IF i = idx(m, a) + 1 THEN m.data[idx(m, b) + 1]
        ELSE IF i = idx(m, b) + 1 THEN m.data[idx(m, a) + 1]
        ELSE m.data[i]]]

\* a set of positions as the sequence the row-major iteration yields
RECURSIVE InRowMajorOrder(_, _)
InRowMajorOrder(m, S) ==
    IF S = {} THEN <<>>
    ELSE LET first == CHOOSE p \in S : \A q \in S : idx(m, p) <= idx(m, q)
         IN <<first>> \o InRowMajorOrder(m, S \ {first})

\* neighbours gone wrong: the last row and the last column of the block
\* around the position are cut off
neighbours_clipped(m, pos, diagonals) ==
    LET inside    == within_bounds(m, pos)
        row_range == IF inside
                     THEN saturating_sub(pos[1], 1)..(Min(m.rows, pos[1] + 1) - 1)
                     ELSE {}
        col_range == IF inside
                     THEN saturating_sub(pos[2], 1)..(Min(m.columns, pos[2] + 1) - 1)
                     ELSE {}
        kept      == {p \in row_range \X col_range :
                        /\ (p[1] # pos[1] \/ p[2] # pos[2])
                        /\ (diagonals \/ p[1] = pos[1] \/ p[2] = pos[2])}
    IN InRowMajorOrder(m, kept)

\* neighbours gone wrong another way: the diagonal ones are never left out
neighbours_block(m, pos, diagonals) ==
    LET inside    == within_bounds(m, pos)
        row_range == IF inside
                     THEN saturating_sub(pos[1], 1)..(Min(m.rows, pos[1] + 2) - 1)
                     ELSE {}
        col_range == IF inside
                     THEN saturating_sub(pos[2], 1)..(Min(m.columns, pos[2] + 2) - 1)
                     ELSE {}
        kept      == {p \in row_range \X col_range : p[1] # pos[1] \/ p[2] # pos[2]}
    IN InRowMajorOrder(m, kept)

\* Matrix::neighbours: nothing for a position out of bounds; otherwise the
\* in-bounds positions of the 3x3 block around it, the position itself
\* excluded, and the diagonal ones too unless diagonals is set
neighbours(m, pos, diagonals) ==
    LET inside    == within_bounds(m, pos)
        row_range == IF inside
                     THEN saturating_sub(pos[1], 1)..(Min(m.rows, pos[1] + 2) - 1)
                     ELSE {}
        col_range == IF inside
                     THEN saturating_sub(pos[2], 1)..(Min(m.columns, pos[2] + 2) - 1)
                     ELSE {}
        kept      == {p \in row_range \X col_range :
                        /\ (p[1] # pos[1] \/ p[2] # pos[2])
                        /\ (diagonals \/ p[1] = pos[1] \/ p[2] = pos[2])}
    IN InRowMajorOrder(m, kept)

\* Matrix::items: every cell with its position, row by row
items(m) ==
    [i \in 1..Len(m.data) |->
        <<<<(i - 1) \div m.columns, (i - 1) % m.columns>>, m.data[i]>>]

----------------------------------------------------------------------------
(* NPuzzle *)

NoPuzzle == [board |-> NoMatrix, blank_position |-> <<0, 0>>]

\* NPuzzle::new.  The blank is spliced into the tiles at blank_index and
\* the result handed to square_from_vec.  size * size - blank_index - 1 is
\* a usize subtraction: when it would be negative a build with overflow
\* checks panics and a build without them wraps to a count larger than any
\* tile list, so the set holds both outcomes.
new(size, start_items, blank_position) ==
    LET blank_index  == size * blank_position[1] + blank_position[2]
        board_pieces == take(start_items, blank_index) \o <<None>>
        board_items  == after(start_items, blank_index)
        remaining    == size * size - blank_index - 1
        finish(pieces) ==
            LET board == square_from_vec(pieces)
            IN IF board.ok
               THEN [kind |-> "Ok",
                     puzzle |-> [board |-> board.matrix,
                                 blank_position |-> blank_position]]
               ELSE [kind |-> "Err", puzzle |-> NoPuzzle]
    IN IF remaining < 0
       THEN {[kind |-> "panic", puzzle |-> NoPuzzle],
             finish(board_pieces \o board_items)}
       ELSE {finish(board_pieces \o take(board_items, remaining))}

\* NPuzzle::move_blank: assert_ne! on the two positions, then Matrix::swap
move_blank_panics(self, new_blank_position) ==
    \/ self.blank_position = new_blank_position
    \/ swap_panics(self.board, self.blank_position, new_blank_position)

\* move_blank gone wrong: the cached blank position is not brought along
move_blank_stale(self, new_blank_position) ==
    [board |-> swap(self.board, self.blank_position, new_blank_position),
     blank_position |-> self.blank_position]

\* move_blank gone wrong: row and column of the cached blank position are
\* handed to swap the wrong way round
move_blank_transposed(self, new_blank_position) ==
    [board |-> swap(self.board,
                    <<self.blank_position[2], self.blank_position[1]>>,
                    new_blank_position),
     blank_position |-> new_blank_position]

move_blank(self, new_blank_position) ==
    [board |-> swap(self.board, self.blank_position, new_blank_position),
     blank_position |-> new_blank_position]

\* successors gone wrong: the diagonal neighbours are taken as well
successors_diagonal(self) ==
    LET to == neighbours(self.board, self.blank_position, TRUE)
    IN [i \in 1..Len(to) |-> move_blank(self, to[i])]

\* NPuzzle::successors: one move_blank per neighbour of the cached blank
successors(self) ==
    LET to == neighbours(self.board, self.blank_position, FALSE)
    IN [i \in 1..Len(to) |-> move_blank(self, to[i])]

successors_panics(self) ==
    LET to == neighbours(self.board, self.blank_position, FALSE)
    IN \E i \in 1..Len(to) : move_blank_panics(self, to[i])

\* successors_with_costs gone wrong, two ways: a move is priced at the two
\* cells it exchanges; the moves are not those of successors (the diagonal
\* neighbours are taken as well)
successors_with_costs_cells(self) ==
    LET s == successors(self)
    IN [i \in 1..Len(s) |-> <<s[i], 2>>]

successors_with_costs_diagonal(self) ==
    LET to == neighbours(self.board, self.blank_position, TRUE)
    IN [i \in 1..Len(to) |-> <<move_blank(self, to[i]), 1>>]

\* NPuzzle::successors_with_costs: every move costs 1
successors_with_costs(self) ==
    LET s == successors(self)
    IN [i \in 1..Len(s) |-> <<s[i], 1>>]

\* the filter gone wrong: the blank is not left out
incorrect_blank(index, value) == index # value - 1

\* the filter of num_incorrect: index is the enumerate() index, from 0
incorrect(index, value) == value # None /\ index # value - 1

\* NPuzzle::num_incorrect: items().enumerate().filter(..).count()
RECURSIVE count_incorrect(_, _)
count_incorrect(its, k) ==
    IF k = 0 THEN 0
    ELSE LET value == its[k][2]
         IN count_incorrect(its, k - 1) + (IF incorrect(k - 1, value) THEN 1 ELSE 0)

num_incorrect(self) ==
    LET its == items(self.board) IN count_incorrect(its, Len(its))

\* the map gone wrong, three ways: goal row and goal column the wrong way
\* round; the column distance forgotten; the label not lowered by one
tile_distance_transposed(self, pos, v) ==
    LET value == v - 1
        x_val == value % self.board.rows
        y_val == value \div self.board.rows
    IN abs_diff(pos[1], x_val) + abs_diff(pos[2], y_val)

tile_distance_rows(self, pos, v) ==
    LET value == v - 1
        x_val == value \div self.board.rows
    IN abs_diff(pos[1], x_val)

tile_distance_label(self, pos, v) ==
    LET value == v
        x_val == value \div self.board.rows
        y_val == value % self.board.rows
    IN abs_diff(pos[1], x_val) + abs_diff(pos[2], y_val)

\* the map gone wrong a fourth way: the larger of the two distances, not
\* their sum
tile_distance_larger(self, pos, v) ==
    LET value == v - 1
        x_val == value \div self.board.rows
        y_val == value % self.board.rows
        rows  == abs_diff(pos[1], x_val)
        cols  == abs_diff(pos[2], y_val)
    IN IF rows > cols THEN rows ELSE cols

\* the map of taxicab_distance for one tile: its goal cell is
\* ((v - 1) / rows, (v - 1) % rows)
tile_distance(self, pos, v) ==
    LET value == v - 1
        x_val == value \div self.board.rows
        y_val == value % self.board.rows
    IN abs_diff(pos[1], x_val) + abs_diff(pos[2], y_val)

\* NPuzzle::taxicab_distance: items().filter_map(..).map(..).sum()
RECURSIVE sum_distances(_, _, _)
sum_distances(self, its, k) ==
    IF k = 0 THEN 0
    ELSE LET item == its[k]
         IN sum_distances(self, its, k - 1)
            + (IF item[2] # None THEN tile_distance(self, item[1], item[2]) ELSE 0)

taxicab_distance(self) ==
    LET its == items(self.board) IN sum_distances(self, its, Len(its))

\* NPuzzle::success
success(self) == num_incorrect(self) = 0

\* main, lines 69-72: the heuristic the command line selects
Heuristics == {"NumIncorrect", "Taxicab"}

heuristic_fn(heuristic, p) ==
    IF heuristic = "NumIncorrect" THEN num_incorrect(p) ELSE taxicab_distance(p)

----------------------------------------------------------------------------
(* The search engine.  main hands the puzzle's functions to five entry
   points that are not part of the sources; they are written down here as
   the specification describes them (section 4.3), each following its
   search for a bounded number of steps.  A search returns the ordered
   path and the cost, or NoSolutionFound; StillRunning stands for a search
   that has not returned within the bound. *)

\* the node expansions a breadth-first, depth-first or A* search is followed for
MaxExpansions == 12

NoSolutionFound == [outcome |-> "None", nodes |-> <<>>, cost |-> 0]

StillRunning == [outcome |-> "Running", nodes |-> <<>>, cost |-> 0]

PathResult(nodes, cost) == [outcome |-> "Found", nodes |-> nodes, cost |-> cost]

\* section 4.4: the parent links are walked back from entry i to the start
\* and the sequence reversed
RECURSIVE reverse_path(_, _)
reverse_path(seen, i) ==
    IF i = 0 THEN <<>>
    ELSE Append(reverse_path(seen, seen[i].parent), seen[i].node)

\* the nodes generated from entry i join the frontier unless already seen
RECURSIVE enqueue(_, _, _, _)
enqueue(seen, nodes, i, k) ==
    IF k > Len(nodes) THEN seen
    ELSE IF \E j \in 1..Len(seen) : seen[j].node = nodes[k]
         THEN enqueue(seen, nodes, i, k + 1)
         ELSE enqueue(Append(seen, [node |-> nodes[k], parent |-> i]), nodes, i, k + 1)

\* breadth-first: the frontier is the entries from i on, first in first
\* out; every node ever generated is kept in seen with its parent; the goal
\* is checked when a node is expanded
RECURSIVE bfs_from(_, _, _)
bfs_from(seen, i, fuel) ==
    IF i > Len(seen) THEN NoSolutionFound
    ELSE IF success(seen[i].node) THEN PathResult(reverse_path(seen, i), 0)
    ELSE IF fuel = 0 THEN StillRunning
    ELSE bfs_from(enqueue(seen, successors(seen[i].node), i, 1), i + 1, fuel - 1)

bfs(start) == bfs_from(<<[node |-> start, parent |-> 0]>>, 1, MaxExpansions)

\* depth-first: the frontier is a stack of the paths still to follow, last
\* in first out, the first successor on top; a visited set keeps a board
\* from being expanded twice; the first path found is returned
RECURSIVE dfs_from(_, _, _)
dfs_from(stack, visited, fuel) ==
    IF stack = <<>> THEN NoSolutionFound
    ELSE LET top  == stack[Len(stack)]
             rest == SubSeq(stack, 1, Len(stack) - 1)
             node == top[Len(top)]
         IN IF node \in visited THEN dfs_from(rest, visited, fuel)
            ELSE IF success(node) THEN PathResult(top, 0)
            ELSE IF fuel = 0 THEN StillRunning
            ELSE LET next == successors(node)
                     n    == Len(next)
                 IN dfs_from(rest \o [k \in 1..n |-> Append(top, next[n + 1 - k])],
                             visited \cup {node}, fuel - 1)

dfs(start) == dfs_from(<<<<start>>>>, {}, MaxExpansions)

\* one round of iterative deepening: depth-first from the end of the path,
\* at most `left` moves further, never straight back to the node the path
\* came from; the path found, or <<>>
RECURSIVE depth_limited(_, _)
RECURSIVE first_found(_, _, _, _)
depth_limited(nodes, left) ==
    LET node == nodes[Len(nodes)]
    IN IF success(node) THEN nodes
       ELSE IF left = 0 THEN <<>>
       ELSE first_found(nodes, successors(node), 1, left)

first_found(nodes, next, k, left) ==
    IF k > Len(next) THEN <<>>
    ELSE IF Len(nodes) > 1 /\ next[k] = nodes[Len(nodes) - 1]
         THEN first_found(nodes, next, k + 1, left)
         ELSE LET found == depth_limited(Append(nodes, next[k]), left - 1)
              IN IF found # <<>> THEN found
                 ELSE first_found(nodes, next, k + 1, left)

\* iterative deepening: the depth limit starts at 0 and grows by 1 each
\* round; the rounds are followed up to the limit MaxMoves
RECURSIVE iddfs_from(_, _)
iddfs_from(start, limit) ==
    IF limit > MaxMoves THEN StillRunning
    ELSE LET found == depth_limited(<<start>>, limit)
         IN IF found # <<>> THEN PathResult(found, 0)
            ELSE iddfs_from(start, limit + 1)

iddfs(start) == iddfs_from(start, 0)

\* the least accumulated cost known for a node, -1 when it was never
\* generated
best_known(known, node) ==
    LET costs == {e[2] : e \in {e \in known : e[1] = node}}
    IN IF costs = {} THEN -1 ELSE CHOOSE c \in costs : \A d \in costs : c <= d

\* the frontier entry A* pops: the least accumulated_cost + heuristic, the
\* first inserted among equals
first_least(open) ==
    CHOOSE i \in 1..Len(open) :
        /\ \A j \in 1..Len(open) : open[i].f <= open[j].f
        /\ \A j \in 1..(i - 1) : open[i].f < open[j].f

\* the moves that reach a node at a lower cost than known so far
improving(known, moves, g) ==
    {k \in 1..Len(moves) :
        LET c == best_known(known, moves[k][1])
        IN c = -1 \/ g + moves[k][2] < c}

\* a set of indices in increasing order
RECURSIVE in_order(_)
in_order(S) ==
    IF S = {} THEN <<>>
    ELSE LET k == CHOOSE i \in S : \A j \in S : i <= j
         IN <<k>> \o in_order(S \ {k})

\* the frontier entries for the moves ks out of entry e, in that order
entries(heuristic, e, moves, ks) ==
    [j \in 1..Len(ks) |->
        [nodes |-> Append(e.nodes, moves[ks[j]][1]),
         g     |-> e.g + moves[ks[j]][2],
         f     |-> e.g + moves[ks[j]][2] + heuristic_fn(heuristic, moves[ks[j]][1])]]

\* the frontier entries that expanding entry e gives
generated(heuristic, known, e, moves) ==
    entries(heuristic, e, moves, in_order(improving(known, moves, e.g)))

\* the node and accumulated cost of each of the entries
costs_of(fresh) ==
    {<<fresh[j].nodes[Len(fresh[j].nodes)], fresh[j].g>> : j \in 1..Len(fresh)}

\* A*: a priority frontier of paths with their accumulated cost g and
\* f = g + heuristic, and the best cost known per generated node; returns
\* when it pops a goal, or when the frontier is empty
RECURSIVE astar_from(_, _, _, _)

\* the entries generated join the frontier and the costs known
push(heuristic, rest, known, fuel, fresh) ==
    astar_from(heuristic, rest \o fresh, known \cup costs_of(fresh), fuel - 1)

\* entry i leaves the frontier: returned when its node is a goal, expanded
\* otherwise
pop(heuristic, open, known, fuel, i) ==
    IF success(open[i].nodes[Len(open[i].nodes)])
    THEN PathResult(open[i].nodes, open[i].g)
    ELSE IF fuel = 0 THEN StillRunning
    ELSE push(heuristic,
              SubSeq(open, 1, i - 1) \o SubSeq(open, i + 1, Len(open)),
              known, fuel,
              generated(heuristic, known, open[i],
                        successors_with_costs(open[i].nodes[Len(open[i].nodes)])))

astar_from(heuristic, open, known, fuel) ==
    IF open = <<>> THEN NoSolutionFound
    ELSE pop(heuristic, open, known, fuel, first_least(open))

astar(start, heuristic) ==
    astar_from(heuristic,
               <<[nodes |-> <<start>>, g |-> 0, f |-> heuristic_fn(heuristic, start)]>>,
               {<<start, 0>>}, MaxExpansions)

\* one round of IDA*: depth-first from the end of the path, no further
\* than f = g + heuristic <= threshold, never straight back to the node the
\* path came from; the path found with its cost, or the least f that
\* exceeded the threshold (-1: none did)
RECURSIVE bounded(_, _, _, _)
RECURSIVE each_move(_, _, _, _, _, _, _)
bounded(heuristic, nodes, g, threshold) ==
    LET node == nodes[Len(nodes)]
        f    == g + heuristic_fn(heuristic, node)
    IN IF f > threshold THEN [found |-> FALSE, nodes |-> <<>>, cost |-> 0, least |-> f]
       ELSE IF success(node) THEN [found |-> TRUE, nodes |-> nodes, cost |-> g, least |-> f]
       ELSE each_move(heuristic, nodes, g, threshold, successors_with_costs(node), 1, -1)

each_move(heuristic, nodes, g, threshold, moves, k, least) ==
    IF k > Len(moves) THEN [found |-> FALSE, nodes |-> <<>>, cost |-> 0, least |-> least]
    ELSE IF Len(nodes) > 1 /\ moves[k][1] = nodes[Len(nodes) - 1]
         THEN each_move(heuristic, nodes, g, threshold, moves, k + 1, least)
         ELSE LET r == bounded(heuristic, Append(nodes, moves[k][1]), g + moves[k][2], threshold)
              IN IF r.found THEN r
                 ELSE each_move(heuristic, nodes, g, threshold, moves, k + 1,
                                IF least = -1 \/ (r.least # -1 /\ r.least < least)
                                THEN r.least ELSE least)

\* IDA*: the threshold starts at heuristic(start) and is raised each round
\* to the least f that exceeded it; the rounds are followed up to the
\* threshold MaxMoves
RECURSIVE idastar_from(_, _, _)
idastar_from(heuristic, start, threshold) ==
    IF threshold > MaxMoves THEN StillRunning
    ELSE LET r == bounded(heuristic, <<start>>, 0, threshold)
         IN IF r.found THEN PathResult(r.nodes, r.cost)
            ELSE IF r.least = -1 THEN NoSolutionFound
            ELSE idastar_from(heuristic, start, r.least)

idastar(start, heuristic) ==
    idastar_from(heuristic, start, heuristic_fn(heuristic, start))

----------------------------------------------------------------------------
(* The inputs the model draws *)

\* the tiles 1..k in order
Ordered(k) == [i \in 1..k |-> i]

\* s with the tiles at i and i + 1 exchanged
Exchanged(s, i) ==
    [j \in 1..Len(s) |-> IF j = i THEN s[i + 1] ELSE IF j = i + 1 THEN s[i] ELSE s[j]]

\* s with the tile at i moved behind the w - 1 tiles that follow it, and
\* with the last tile of those w moved in front of the others
MovedBack(s, i, w) ==
    [j \in 1..Len(s) |->
        IF j < i \/ j > i + w - 1 THEN s[j]
        ELSE IF j = i + w - 1 THEN s[i] ELSE s[j + 1]]

MovedFront(s, i, w) ==
    [j \in 1..Len(s) |->
        IF j < i \/ j > i + w - 1 THEN s[j]
        ELSE IF j = i THEN s[i + w - 1] ELSE s[j - 1]]

\* the tile lists of the tests of n_puzzle.rs (all for size 3)
TestItems == {<<1, 3, 7, 2, 6, 5, 4, 8>>, <<7, 8, 5, 3, 1, 4, 6, 2>>}

\* size * size - 1 distinct tiles 1..size * size - 1: in order, with two
\* adjacent tiles exchanged, or with one tile moved over size - 1 others
Permuted(size) ==
    LET k == size * size - 1
        o == Ordered(k)
    IN {o}
       \cup {Exchanged(o, i) : i \in 1..(k - 1)}
       \cup {MovedBack(o, i, size) : i \in 1..(k - size + 1)}
       \cup {MovedFront(o, i, size) : i \in 1..(k - size + 1)}
       \cup (IF size = 3 THEN TestItems ELSE {})

\* tile lists that are no such permutation: too few tiles, too many, a
\* tile twice, a tile beyond size * size - 1
Malformed(size) ==
    LET k == size * size - 1
    IN {Ordered(k - 1), Ordered((size - 1) * (size - 1) - 1), Ordered(k + 1),
        [i \in 1..k |-> IF i = 1 THEN 2 ELSE i],
        [i \in 1..k |-> IF i = 1 THEN k + 1 ELSE i]}

Sizes == 2..MaxSize

\* blank positions in bounds, and one row and one column beyond
Positions(size) == (0..size) \X (0..size)

\* the solved board of a size
Solved(size) ==
    [board |-> [rows |-> size, columns |-> size,
                data |-> [i \in 1..(size * size) |->
                             IF i = size * size THEN None ELSE i]],
     blank_position |-> <<size - 1, size - 1>>]

\* the boards at most k moves from the boards of S
RECURSIVE Within(_, _)
Within(S, k) ==
    IF k = 0 THEN S
    ELSE Within(S \cup UNION {{successors(b)[i] : i \in 1..Len(successors(b))} : b \in S},
                k - 1)

\* the tiles of a board in row-major order, the blank left out
tiles_of(self) ==
    LET b == idx(self.board, self.blank_position) + 1
    IN SubSeq(self.board.data, 1, b - 1)
         \o SubSeq(self.board.data, b + 1, Len(self.board.data))

\* the moves the scrambled start boards are away from the solved board
MaxScramble == 3

\* the arguments that give the boards at most MaxScramble moves from the
\* solved one
Scrambled(size) ==
    {[size |-> size, start_items |-> tiles_of(b), blank_position |-> b.blank_position] :
        b \in Within({Solved(size)}, MaxScramble)}

Args ==
    UNION {{[size |-> size, start_items |-> t, blank_position |-> p] :
                t \in Permuted(size) \cup Malformed(size), p \in Positions(size)}
             \cup Scrambled(size) :
           size \in Sizes}

\* the inputs that meet the contract of NPuzzle::new
IsPermutation(t, size) ==
    /\ Len(t) = size * size - 1
    /\ {t[i] : i \in 1..Len(t)} = 1..(size * size - 1)

WellFormed(a) ==
    /\ IsPermutation(a.start_items, a.size)
    /\ a.blank_position[1] < a.size
    /\ a.blank_position[2] < a.size

Algorithms == {"Bfs", "Dfs", "IdDfs", "AStar", "IdaStar"}

NoReport == [algorithm |-> "", heuristic |-> "", nodes |-> <<>>, stat |-> 0]

----------------------------------------------------------------------------
(* The state machine *)

\* the puzzle the engine is at: the last node of the path from the start
current == path[Len(path)]

Init ==
    /\ args \in Args
    /\ pc = "init"
    /\ path = <<>>
    /\ succs = <<>>
    /\ report = NoReport
    /\ moved = NoPuzzle

\* main, lines 48-55: the size is read off the number of pieces, 8 or 15;
\* 0 stands for any other number, on which main bails
size_of(pieces) ==
    IF Len(pieces) = 8 THEN 3 ELSE IF Len(pieces) = 15 THEN 4 ELSE 0

\* main, lines 48-64: the size is known and both blank coordinates are
\* ensured to be less than it
accepted(a) ==
    LET size == size_of(a.start_items)
    IN /\ size # 0
       /\ a.blank_position[1] < size
       /\ a.blank_position[2] < size

\* main, lines 48-66: bails, or goes on to NPuzzle::new with the size it
\* has read off the pieces
Main ==
    /\ pc = "init"
    /\ IF accepted(args)
       THEN /\ pc' = "parsed"
            /\ args' = [args EXCEPT !.size = size_of(args.start_items)]
       ELSE /\ pc' = "bail"
            /\ args' = args
    /\ UNCHANGED <<path, succs, report, moved>>

\* NPuzzle::new(size, start_items, blank_position), called by main (line 67)
\* or by any other caller of the library
New ==
    /\ pc \in {"init", "parsed"}
    /\ \E r \in new(args.size, args.start_items, args.blank_position) :
          /\ pc' = IF r.kind = "Ok" THEN "ready" ELSE r.kind
          /\ path' = IF r.kind = "Ok" THEN <<r.puzzle>> ELSE <<>>
    /\ UNCHANGED <<args, succs, report, moved>>

\* the node arrived at is expanded, by a search or by any other user of
\* the puzzle: self.successors()
Successors ==
    /\ pc = "ready"
    /\ Len(path) - 1 < MaxMoves
    /\ IF successors_panics(current)
       THEN pc' = "panic" /\ succs' = <<>>
       ELSE pc' = "expanded" /\ succs' = successors(current)
    /\ UNCHANGED <<args, path, report, moved>>

\* on to one of the successors
Step ==
    /\ pc = "expanded"
    /\ \E i \in 1..Len(succs) : path' = Append(path, succs[i])
    /\ pc' = "ready"
    /\ succs' = <<>>
    /\ UNCHANGED <<args, report, moved>>

\* the moves of a path at the costs successors_with_costs gives them
RECURSIVE cost_of(_, _)
cost_of(nodes, k) ==
    IF k <= 1 THEN 0
    ELSE LET moves == successors_with_costs(nodes[k - 1])
             i == CHOOSE j \in 1..Len(moves) : moves[j][1] = nodes[k]
         IN cost_of(nodes, k - 1) + moves[i][2]

\* the statistic gone wrong: the moves, not the nodes, for every algorithm
statistic_moves(algorithm, result) == Len(result.nodes) - 1

\* main, lines 74-101: what is kept with the path an algorithm returns:
\* path.len() for bfs, dfs and iddfs, the cost astar and idastar return
statistic(algorithm, result) ==
    IF algorithm \in {"Bfs", "Dfs", "IdDfs"} THEN Len(result.nodes)
    ELSE result.cost

\* the solved board with the tiles at cells i and i + 1 exchanged and the
\* blank in the last cell
IsExchanged(self) ==
    LET k == Len(self.board.data)
    IN /\ self.board.data[k] = None
       /\ \E i \in 1..(k - 2) :
             \A j \in 1..(k - 1) :
                 self.board.data[j] = IF j = i THEN i + 1
                                      ELSE IF j = i + 1 THEN i
                                      ELSE j

\* what a search that was followed to the bound returns in the end: a
\* search from a board that IsExchanged that is still running at the bound
\* has NoSolutionFound as its outcome: the boards that can be reached are
\* finitely many and none of them satisfies success (the specification Walk
\* goes through them all), so the search space is exhausted without a goal
outcome_of(start, followed) ==
    IF followed.outcome = "Running" /\ IsExchanged(start)
    THEN NoSolutionFound
    ELSE followed

\* main, lines 74-101: the entry point the command line selects, with the
\* functions main hands to it
search(algorithm, heuristic, start) ==
    outcome_of(start,
               CASE algorithm = "Bfs"     -> bfs(start)
                 [] algorithm = "Dfs"     -> dfs(start)
                 [] algorithm = "IdDfs"   -> iddfs(start)
                 [] algorithm = "AStar"   -> astar(start, heuristic)
                 [] algorithm = "IdaStar" -> idastar(start, heuristic))

\* the heuristics an algorithm can be run with: bfs, dfs and iddfs take
\* none, and the one the command line selects is not looked at
heuristics_of(algorithm) ==
    IF algorithm \in {"AStar", "IdaStar"} THEN Heuristics ELSE {"Taxicab"}

\* main, lines 74-137: the algorithm is run from the puzzle that was built;
\* main unwraps the result, which panics when it is None, and prints the
\* nodes and the statistic.  Another user of the engine making the same
\* call on a puzzle main would not have built is left with the None.
Report ==
    /\ pc = "ready"
    /\ Len(path) = 1
    /\ \E algorithm \in Algorithms :
          \E heuristic \in heuristics_of(algorithm) :
             LET result == search(algorithm, heuristic, current)
             IN /\ result.outcome # "Running"
                /\ IF result.outcome = "Found"
                   THEN /\ pc' = "done"
                        /\ report' = [algorithm |-> algorithm,
                                      heuristic |-> heuristic,
                                      nodes     |-> result.nodes,
                                      stat      |-> statistic(algorithm, result)]
                   ELSE /\ pc' = IF accepted(args) /\ args.size = size_of(args.start_items)
                                 THEN "panic" ELSE "none"
                        /\ report' = [NoReport EXCEPT !.algorithm = algorithm,
                                                      !.heuristic = heuristic]
    /\ UNCHANGED <<args, path, succs, moved>>

\* NPuzzle::move_blank(p) called on the puzzle that was built, with any
\* position: the assert_ne!, the bounds assertion of Matrix::swap, or the
\* board
MoveBlank ==
    /\ pc = "ready"
    /\ Len(path) = 1
    /\ \E p \in Positions(current.board.rows) :
          IF move_blank_panics(current, p)
          THEN pc' = "panic" /\ moved' = NoPuzzle
          ELSE pc' = "moved" /\ moved' = move_blank(current, p)
    /\ UNCHANGED <<args, path, succs, report>>

Next == Main \/ New \/ Successors \/ Step \/ Report \/ MoveBlank

Spec == Init /\ [][Next]_vars

----------------------------------------------------------------------------
(* A second specification: from the solved boards of 2 x 2 and 3 x 3 with
   two tiles exchanged, successors() is followed without a bound on the
   number of moves; the path is not kept, only the board arrived at. *)

ParitySizes == {2, 3}

\* the first two and the last two tiles exchanged, the blank in the last
\* cell
ParityArgs ==
    UNION {{[size |-> size, start_items |-> Exchanged(Ordered(size * size - 1), i),
             blank_position |-> <<size - 1, size - 1>>] :
               i \in {1, size * size - 2}} :
           size \in ParitySizes}

InitWalk ==
    /\ args \in ParityArgs
    /\ pc = "init"
    /\ path = <<>>
    /\ succs = <<>>
    /\ report = NoReport
    /\ moved = NoPuzzle

\* one of self.successors() takes the place of the board
Wander ==
    /\ pc = "ready"
    /\ ~successors_panics(current)
    /\ \E i \in 1..Len(successors(current)) : path' = <<successors(current)[i]>>
    /\ UNCHANGED <<args, pc, succs, report, moved>>

NextWalk == New \/ Wander

Walk == InitWalk /\ [][NextWalk]_vars

----------------------------------------------------------------------------
(* What the claims speak of *)

\* a puzzle has been constructed
Built == pc \in {"ready", "expanded", "done"}

\* the puzzles new in this state: the start board when it has just been
\* built, the successors when they have just been made (every later node
\* of a path was among the successors of the node before it)
Nodes ==
    IF Len(succs) > 0 THEN {succs[i] : i \in 1..Len(succs)}
    ELSE IF Len(path) = 1 THEN {path[1]}
    ELSE {}

\* the arguments have size * size - 1 tiles and a blank position in bounds
RightShape(a) ==
    /\ Len(a.start_items) = a.size * a.size - 1
    /\ a.blank_position[1] < a.size
    /\ a.blank_position[2] < a.size

\* the cell (from 1) of the data a position names
Cell(p, pos) == idx(p.board, pos) + 1

\* what a board holds at a position
At(m, pos) == m.data[idx(m, pos) + 1]

\* the label of cell i (from 1) in the solved configuration of k cells
SolvedLabel(i, k) == IF i = k THEN None ELSE i

IsSolved(p) ==
    \A i \in 1..Len(p.board.data) : p.board.data[i] = SolvedLabel(i, Len(p.board.data))

\* the up, down, left and right neighbours of a position on an n x n grid
Orthogonal(pos, n) ==
    {q \in (0..(n - 1)) \X (0..(n - 1)) :
        \/ q[2] = pos[2] /\ (q[1] = pos[1] + 1 \/ q[1] + 1 = pos[1])
        \/ q[1] = pos[1] /\ (q[2] = pos[2] + 1 \/ q[2] + 1 = pos[2])}

\* f[1] + ... + f[k]
RECURSIVE SumTo(_, _)
SumTo(f, k) == IF k = 0 THEN 0 ELSE f[k] + SumTo(f, k - 1)

----------------------------------------------------------------------------
(* C1 *)

OneBlankWhereCached(p) ==
    /\ within_bounds(p.board, p.blank_position)
    /\ Cardinality({i \in 1..Len(p.board.data) : p.board.data[i] = None}) = 1
    /\ At(p.board, p.blank_position) = None

\* C1: on every board built by NPuzzle::new from size * size - 1 tiles and a
\* blank position in bounds, and on every board reached from it by
\* successors() steps, exactly one cell is blank and it is the cell at the
\* cached blank_position.
C1_OneBlankWhereCached ==
    (Built /\ RightShape(args)) => \A p \in Nodes : OneBlankWhereCached(p)

C1_Witness ==
    /\ pc = "expanded"
    /\ RightShape(args)
    /\ Len(path) = MaxMoves
    /\ Len(succs) = 4
    /\ \A p \in Nodes : OneBlankWhereCached(p)

----------------------------------------------------------------------------
(* C2 *)

\* an n x n grid, n >= 2
IsGrid(p) ==
    /\ p.board.rows >= 2
    /\ p.board.columns = p.board.rows
    /\ Len(p.board.data) = p.board.rows * p.board.columns

\* C2: successors() of a board returns one board per up/down/left/right
\* in-bounds neighbour of the blank and nothing else: 2 boards with the blank
\* in a corner, 3 on an edge off the corners, 4 in the interior; the blank
\* positions of the boards returned are exactly those neighbours, each once.
C2_SuccessorsAreNeighbours ==
    (pc = "expanded" /\ IsGrid(current) /\ OneBlankWhereCached(current)) =>
        LET n      == current.board.rows
            pos    == current.blank_position
            onRow  == pos[1] = 0 \/ pos[1] = n - 1
            onCol  == pos[2] = 0 \/ pos[2] = n - 1
            blanks == {succs[i].blank_position : i \in 1..Len(succs)}
        IN /\ blanks = Orthogonal(pos, n)
           /\ Cardinality(blanks) = Len(succs)
           /\ (onRow /\ onCol) => Len(succs) = 2
           /\ (onRow /\ ~onCol) \/ (~onRow /\ onCol) => Len(succs) = 3
           /\ (~onRow /\ ~onCol) => Len(succs) = 4
           /\ \A i \in 1..Len(succs) :
                 /\ succs[i].board.rows = n
                 /\ succs[i].board.columns = n
                 /\ At(succs[i].board, succs[i].blank_position) = None

\* the centre of the board of the test center_successors, moved to and expanded
C2_Witness ==
    /\ pc = "expanded"
    /\ RightShape(args)
    /\ args.start_items = <<7, 8, 5, 3, 1, 4, 6, 2>>
    /\ Len(path) > 1
    /\ current.blank_position = <<1, 1>>
    /\ {succs[i].blank_position : i \in 1..Len(succs)}
          = {<<0, 1>>, <<1, 0>>, <<1, 2>>, <<2, 1>>}

----------------------------------------------------------------------------
(* C3 *)

\* the cells hold each of the labels 1..k - 1 once and one blank
IsPermutationBoard(p) ==
    LET k == Len(p.board.data)
    IN /\ k = p.board.rows * p.board.columns
       /\ {p.board.data[i] : i \in 1..k} = 0..(k - 1)

\* C3: on every board whose cells are a permutation of the labels and one
\* blank, success(), num_incorrect() = 0, taxicab_distance() = 0 and being
\* the solved configuration (cell i holds label i, the last cell the blank)
\* are all equivalent.
C3_SolvedFourWays ==
    Built =>
        \A p \in Nodes :
            IsPermutationBoard(p) =>
                /\ success(p) <=> IsSolved(p)
                /\ (num_incorrect(p) = 0) <=> IsSolved(p)
                /\ (taxicab_distance(p) = 0) <=> IsSolved(p)

\* the solved board, reached by a move, and an unsolved board before it
C3_Witness ==
    /\ pc = "ready"
    /\ Len(path) > 1
    /\ IsPermutationBoard(current)
    /\ IsSolved(current)
    /\ success(current)
    /\ taxicab_distance(current) = 0
    /\ ~success(path[1])
    /\ taxicab_distance(path[1]) > 0

----------------------------------------------------------------------------
(* C4 *)

\* every label is one of 1..k - 1 on a board of k cells
LabelsInRange(p) ==
    \A i \in 1..Len(p.board.data) : p.board.data[i] < Len(p.board.data)

\* the non-blank cells that do not hold the label the solved board has there
Misplaced(p) ==
    {i \in 1..Len(p.board.data) :
        p.board.data[i] # None /\ p.board.data[i] # SolvedLabel(i, Len(p.board.data))}

\* |row - goal row| + |column - goal column| of the tile in cell i, the goal
\* cell of label v being ((v - 1) div n, (v - 1) mod n)
Manhattan(p) ==
    LET n == p.board.rows
    IN [i \in 1..Len(p.board.data) |->
          LET v == p.board.data[i]
              row == (i - 1) \div n
              col == (i - 1) % n
              dr == row - ((v - 1) \div n)
              dc == col - ((v - 1) % n)
          IN IF v = None THEN 0
             ELSE (IF dr < 0 THEN -dr ELSE dr) + (IF dc < 0 THEN -dc ELSE dc)]

\* C4: num_incorrect() is the number of non-blank cells whose label is not
\* the solved board's label for that cell, and taxicab_distance() is the sum
\* over the non-blank cells of |row - goal row| + |column - goal column|; the
\* board of the test heuristics_when_not_solved gives 6 and 8.
C4_HeuristicValues ==
    Built =>
        /\ \A p \in Nodes :
              /\ LabelsInRange(p) => num_incorrect(p) = Cardinality(Misplaced(p))
              /\ taxicab_distance(p) = SumTo(Manhattan(p), Len(p.board.data))
        /\ (args = [size |-> 3, start_items |-> <<1, 3, 7, 2, 6, 5, 4, 8>>,
                    blank_position |-> <<0, 0>>])
              => num_incorrect(path[1]) = 6 /\ taxicab_distance(path[1]) = 8

C4_Witness ==
    /\ pc = "expanded"
    /\ args = [size |-> 3, start_items |-> <<1, 3, 7, 2, 6, 5, 4, 8>>,
               blank_position |-> <<0, 0>>]
    /\ num_incorrect(path[1]) = 6
    /\ taxicab_distance(path[1]) = 8
    /\ Len(path) > 2
    /\ num_incorrect(current) = Cardinality(Misplaced(current))
    /\ num_incorrect(current) # 6

----------------------------------------------------------------------------
(* C5 *)

\* C5: on every board reached by legal moves from a start board built from
\* a permutation of the tiles and a blank position in bounds,
\* num_incorrect() <= taxicab_distance().
C5_IncorrectAtMostTaxicab ==
    (Built /\ WellFormed(args)) =>
        \A p \in Nodes : num_incorrect(p) <= taxicab_distance(p)

\* after moves: once with the two equal and not 0, once with taxicab larger
C5_Witness ==
    /\ pc = "expanded"
    /\ WellFormed(args)
    /\ Len(path) > 2
    /\ num_incorrect(current) > 0
    /\ num_incorrect(current) = taxicab_distance(current)
    /\ \E p \in Nodes : num_incorrect(p) < taxicab_distance(p)

----------------------------------------------------------------------------
(* C6 *)

\* C6: both heuristics are admissible: whenever a sequence of legal moves
\* leads from a board to a solved board, neither num_incorrect() nor
\* taxicab_distance() of the board exceeds the number of moves in it.
C6_Admissible ==
    (Built /\ WellFormed(args) /\ success(current)) =>
        \A i \in 1..Len(path) : \A h \in Heuristics :
            heuristic_fn(h, path[i]) <= Len(path) - i

\* a path of several moves to the solved board that no shorter one could
\* replace: the taxicab distance of its start is its number of moves
C6_Witness ==
    /\ pc = "ready"
    /\ WellFormed(args)
    /\ success(current)
    /\ IsSolved(current)
    /\ Len(path) > 3
    /\ taxicab_distance(path[1]) = Len(path) - 1
    /\ num_incorrect(path[1]) > 1
    /\ num_incorrect(path[1]) <= Len(path) - 1

----------------------------------------------------------------------------
(* C7 *)

\* q is p with exactly the cells at p's blank and at q's blank exchanged
ExchangedCells(p, q) ==
    LET old == Cell(p, p.blank_position)
        to  == Cell(q, q.blank_position)
    IN /\ q.board.rows = p.board.rows
       /\ q.board.columns = p.board.columns
       /\ Len(q.board.data) = Len(p.board.data)
       /\ q.blank_position \in Orthogonal(p.blank_position, p.board.rows)
       /\ old # to
       /\ q.board.data[to] = None
       /\ q.board.data[old] = p.board.data[to]
       /\ p.board.data[to] # None
       /\ \A i \in 1..Len(p.board.data) :
             (i # old /\ i # to) => q.board.data[i] = p.board.data[i]

\* C7: move_blank(p), p a neighbour of the blank, returns a board with
\* exactly the cells at the old blank position and at p exchanged (the blank
\* now at p, the tile that was at p at the old blank position), every other
\* cell as it was, and leaves the board it was called on as it was.
C7_MoveBlankExchanges ==
    [][(pc = "ready" /\ pc' = "expanded"
          /\ IsGrid(current) /\ OneBlankWhereCached(current)) =>
            /\ path' = path
            /\ Len(succs') >= 2
            /\ \A i \in 1..Len(succs') : ExchangedCells(current, succs'[i])]_vars

C7_Witness ==
    /\ pc = "expanded"
    /\ IsGrid(current) /\ OneBlankWhereCached(current)
    /\ Len(path) > 2
    /\ Len(succs) = 4
    /\ \A i \in 1..Len(succs) : ExchangedCells(current, succs[i])

----------------------------------------------------------------------------
(* C8 *)

BlankOutOfBounds(a) ==
    a.blank_position[1] >= a.size \/ a.blank_position[2] >= a.size

\* C8: NPuzzle::new with size * size - 1 tiles and a blank coordinate out
\* of bounds returns an error value: it does not panic and returns no board.
C8_OutOfBoundsIsError ==
    (/\ pc \notin {"init", "bail"}
     /\ Len(args.start_items) = args.size * args.size - 1
     /\ BlankOutOfBounds(args)) => pc = "Err"

----------------------------------------------------------------------------
(* C9 *)

\* the cells of a board without the blank at the cached position
AroundBlank(p) ==
    LET b == Cell(p, p.blank_position)
    IN SubSeq(p.board.data, 1, b - 1) \o SubSeq(p.board.data, b + 1, Len(p.board.data))

\* C9: NPuzzle::new with a blank position in bounds returns an error unless
\* the tiles and the blank number size * size, and a board it returns has
\* size rows, size columns and all the tiles, in order, around the blank.
C9_WrongCountIsError ==
    (pc \notin {"init", "parsed", "bail"} /\ ~BlankOutOfBounds(args)) =>
        /\ Len(args.start_items) # args.size * args.size - 1 => pc = "Err"
        /\ Built =>
              /\ path[1].board.rows = args.size
              /\ path[1].board.columns = args.size
              /\ AroundBlank(path[1]) = args.start_items

----------------------------------------------------------------------------
(* C10 *)

Uninformed == {"Bfs", "Dfs", "IdDfs"}

----------------------------------------------------------------------------
(* C14 *)

\* C14: every board NPuzzle::new returns for size * size - 1 tiles and a
\* blank position in bounds, and every board reached from it by successors()
\* steps, holds each of the labels 1..size * size - 1 exactly once around its
\* blank.
C14_LabelsArePermutation ==
    (Built /\ RightShape(args)) => \A p \in Nodes : IsPermutationBoard(p)

----------------------------------------------------------------------------
(* C16 *)

\* C16: for every board b with its blank where it is cached and every b' in
\* b.successors(), num_incorrect(b) and num_incorrect(b') differ by at most
\* one.
C16_IncorrectConsistent ==
    (pc = "expanded" /\ OneBlankWhereCached(current)) =>
        \A i \in 1..Len(succs) :
            abs_diff(num_incorrect(current), num_incorrect(succs[i])) <= 1

\* a board off the goal whose successors count one more, one less and as
\* many misplaced tiles
C16_Witness ==
    /\ pc = "expanded"
    /\ OneBlankWhereCached(current)
    /\ Len(path) > 1
    /\ {num_incorrect(succs[i]) - num_incorrect(current) : i \in 1..Len(succs)}
          = {-1, 0, 1}

----------------------------------------------------------------------------
(* C17 *)

\* C17: for every board b with its blank where it is cached and every b' in
\* b.successors(), taxicab_distance(b') is taxicab_distance(b) + 1 or
\* taxicab_distance(b) - 1.
C17_TaxicabStepsByOne ==
    (pc = "expanded" /\ OneBlankWhereCached(current)) =>
        \A i \in 1..Len(succs) :
            abs_diff(taxicab_distance(current), taxicab_distance(succs[i])) = 1

\* a board with a successor one further from the goal and a successor one
\* nearer to it
C17_Witness ==
    /\ pc = "expanded"
    /\ OneBlankWhereCached(current)
    /\ Len(path) > 1
    /\ {taxicab_distance(succs[i]) - taxicab_distance(current) : i \in 1..Len(succs)}
          = {-1, 1}

----------------------------------------------------------------------------
(* C19 *)

\* C19: for every board b and every b' in b.successors(), b is one of
\* b'.successors(), and b'.move_blank(b's blank position) does not panic and
\* returns b, grid and cached blank position.
C19_MovesInvertible ==
    pc = "expanded" =>
        \A i \in 1..Len(succs) :
            /\ \E j \in 1..Len(successors(succs[i])) :
                  successors(succs[i])[j] = current
            /\ ~move_blank_panics(succs[i], current.blank_position)
            /\ move_blank(succs[i], current.blank_position) = current

\* four moves away from a start board, each of them undone by the move back
C19_Witness ==
    /\ pc = "expanded"
    /\ Len(path) > 2
    /\ Len(succs) = 4
    /\ \A i \in 1..Len(succs) :
          /\ succs[i] # current
          /\ move_blank(succs[i], current.blank_position) = current

----------------------------------------------------------------------------
(* C11 *)

\* the least number of moves from a board to a solved board, found by
\* going through the boards 0, 1, 2, ... moves away
RECURSIVE MovesFrom(_, _)
MovesFrom(S, k) ==
    IF \E b \in S : IsSolved(b) THEN k
    ELSE MovesFrom(UNION {{successors(b)[i] : i \in 1..Len(successors(b))} : b \in S}, k + 1)

ShortestMoves(start) == MovesFrom({start}, 0)

Informed == {"AStar", "IdaStar"}

\* C11: a path returned by BFS, A* or IDA* (either heuristic) has as many
\* moves as the shortest way from the start to the solved board, and A*
\* and IDA* return that number as the cost; a path returned by DFS or
\* IDDFS has at least as many moves.
C11_ShortestPaths ==
    (pc = "done" /\ IsPermutationBoard(path[1])) =>
        LET moves    == Len(report.nodes) - 1
            shortest == ShortestMoves(path[1])
        IN /\ report.algorithm = "Bfs" => moves = shortest
           /\ report.algorithm \in Informed =>
                 moves = shortest /\ report.stat = shortest
           /\ report.algorithm \in {"Dfs", "IdDfs"} => moves >= shortest

\* DFS has returned a path longer than the shortest, which BFS and A*
\* return from the same start (the searches are functions of the start)
C11_Witness ==
    /\ pc = "done"
    /\ IsPermutationBoard(path[1])
    /\ report.algorithm = "Dfs"
    /\ Len(report.nodes) - 1 > ShortestMoves(path[1])
    /\ Len(bfs(path[1]).nodes) - 1 = ShortestMoves(path[1])
    /\ \A h \in Heuristics :
          /\ astar(path[1], h).cost = ShortestMoves(path[1])
          /\ idastar(path[1], h).cost = ShortestMoves(path[1])

----------------------------------------------------------------------------
(* C13 *)

\* C13: a path an algorithm returns starts at the start board, ends at a
\* board that satisfies success(), and each of its boards but the first is
\* one of the successors() of the board before it.
C13_PathIsSolution ==
    pc = "done" =>
        /\ Len(report.nodes) >= 1
        /\ report.nodes[1] = path[1]
        /\ success(report.nodes[Len(report.nodes)])
        /\ \A i \in 1..(Len(report.nodes) - 1) :
              \E j \in 1..Len(successors(report.nodes[i])) :
                  successors(report.nodes[i])[j] = report.nodes[i + 1]

C13_Witness ==
    /\ pc = "done"
    /\ report.algorithm = "IdaStar"
    /\ Len(report.nodes) > 3
    /\ report.nodes[1] = path[1]
    /\ IsSolved(report.nodes[Len(report.nodes)])

----------------------------------------------------------------------------
(* C12 *)

\* C12: when an algorithm is run on an 8-tile board from which no solved
\* board can be reached, the run ends with the NoSolutionFound outcome and
\* not in a panic.
C12_NoSolutionIsReported ==
    (/\ report.algorithm # ""
     /\ Len(args.start_items) = 8
     /\ accepted(args)
     /\ IsExchanged(path[1])) => pc = "none"

----------------------------------------------------------------------------
(* C15 *)

\* C15: move_blank(p) returns a board only when p is one of the up, down,
\* left and right neighbours of the blank position; for any other position
\* it panics.
C15_OnlyNeighboursMove ==
    (pc = "moved" /\ IsGrid(current) /\ OneBlankWhereCached(current)) =>
        moved.blank_position \in Orthogonal(current.blank_position, current.board.rows)

----------------------------------------------------------------------------
(* C18 *)

\* C18: from the solved 2 x 2 or 3 x 3 board with two tiles exchanged and
\* the blank in the last cell, no sequence of successors() steps, however
\* long, arrives at a board that satisfies success().
C18_ParityIsKept ==
    pc = "ready" => ~success(current) /\ ~IsSolved(current)

\* the walk from the 3 x 3 board with tiles 1 and 2 exchanged has arrived
\* at the board with tiles 7 and 8 exchanged
C18_Witness ==
    /\ pc = "ready"
    /\ args.size = 3
    /\ args.start_items = Exchanged(Ordered(8), 1)
    /\ current.blank_position = <<2, 2>>
    /\ tiles_of(current) = Exchanged(Ordered(8), 7)
    /\ ~success(current)

====
